---- MODULE Spec2Model ----
(***************************************************************************)
(* Model of the research-paper digester: pdf_processor.py (text           *)
(* extraction), chatbot.py (the retrying chat-completion client) and       *)
(* main_digester.py (the two-stage pipeline).                              *)
(*                                                                         *)
(* Strings.  A Python str is modelled run-length encoded: a sequence of    *)
(* runs [c |-> symbol, n |-> count], adjacent runs carrying different     *)
(* symbols.  The symbols are "x" (any character that is neither           *)
(* whitespace nor part of the placeholder), the whitespace characters      *)
(* " ", "\t", "\n", the symbol "PH" (one whole occurrence of the 19       *)
(* characters {paper_text[:8000]}), "PHcut" (a proper prefix of those      *)
(* characters, n of them, as a slice leaves it) and one opaque symbol per  *)
(* literal piece of program text.  The encoding keeps the real lengths     *)
(* (8000, 50000, 500) within reach of the model checker.                   *)
(***************************************************************************)
EXTENDS Integers, Sequences, FiniteSets

\* ------------------------------------------------------------------ bounds
MaxPages == 2          \* pages of an input PDF
MaxRetriesArg == 4     \* largest max_retries passed to _call_llm directly

\* ------------------------------------------------------- program constants
SliceLen == 8000                 \* paper_text[:8000]
PlaceholderWidth == 19           \* len("{paper_text[:8000]}")
MAX_TEXT_LENGTH_WARN == 50000
ShortTextWarn == 500
DefaultMaxRetries == 3
DefaultDelay == 5

\* ----------------------------------------------------------------- strings
Run(c, n) == [c |-> c, n |-> n]
Lit(name) == <<Run(name, 1)>>
X(n) == <<Run("x", n)>>
Placeholder == <<Run("PH", 1)>>

\* Python's None, as a value no string equals.
None == <<Run("None", 0)>>

\* Python truthiness of an optional string: `not v`.
Falsy(v) == v = None \/ v = <<>>

Width(c) == IF c = "PH" THEN PlaceholderWidth ELSE 1

RECURSIVE StrLen(_)
StrLen(s) ==
    IF s = <<>> THEN 0 ELSE s[1].n * Width(s[1].c) + StrLen(Tail(s))

\* s + t
Cat(s, t) ==
    IF s = <<>> THEN t
    ELSE IF t = <<>> THEN s
    ELSE IF s[Len(s)].c = t[1].c /\ t[1].c # "PHcut"
         THEN SubSeq(s, 1, Len(s) - 1)
                 \o <<Run(t[1].c, s[Len(s)].n + t[1].n)>> \o Tail(t)
         ELSE s \o t

\* s[:k]
RECURSIVE Slice(_, _)
Slice(s, k) ==
    IF s = <<>> \/ k <= 0 THEN <<>>
    ELSE LET r == s[1]
             w == Width(r.c)
         IN  IF r.n * w <= k
             THEN <<r>> \o Slice(Tail(s), k - r.n * w)
             ELSE (IF k \div w > 0 THEN <<Run(r.c, k \div w)>> ELSE <<>>)
                  \o (IF k % w > 0 THEN <<Run("PHcut", k % w)>> ELSE <<>>)

RECURSIVE Repeat(_, _)
Repeat(t, n) == IF n = 0 THEN <<>> ELSE Cat(t, Repeat(t, n - 1))

\* s.replace("{paper_text[:8000]}", new): every occurrence, left to right,
\* the inserted text not rescanned.
RECURSIVE Replace(_, _)
Replace(s, new) ==
    IF s = <<>> THEN <<>>
    ELSE Cat(IF s[1].c = "PH" THEN Repeat(new, s[1].n) ELSE <<s[1]>>,
             Replace(Tail(s), new))

IsSpace(c) == c \in {" ", "\t", "\n"}

RECURSIVE LStrip(_)
LStrip(s) == IF s # <<>> /\ IsSpace(s[1].c) THEN LStrip(Tail(s)) ELSE s

RECURSIVE RStrip(_)
RStrip(s) ==
    IF s # <<>> /\ IsSpace(s[Len(s)].c)
    THEN RStrip(SubSeq(s, 1, Len(s) - 1)) ELSE s

\* s.strip()
Strip(s) == RStrip(LStrip(s))

\* The first word of a string that starts with no whitespace, and the rest.
RECURSIVE WordLen(_)
WordLen(s) ==
    IF s = <<>> \/ IsSpace(s[1].c) THEN 0 ELSE 1 + WordLen(Tail(s))

\* s.split(): the maximal whitespace-free pieces, in order.
RECURSIVE Split(_)
Split(s) ==
    LET t == LStrip(s)
        k == WordLen(t)
    IN  IF t = <<>> THEN <<>>
        ELSE <<SubSeq(t, 1, k)>> \o Split(SubSeq(t, k + 1, Len(t)))

\* sep.join(words)
RECURSIVE Join(_, _)
Join(sep, words) ==
    IF words = <<>> THEN <<>>
    ELSE IF Len(words) = 1 THEN words[1]
    ELSE Cat(Cat(words[1], sep), Join(sep, Tail(words)))

\* ------------------------------------------------ pdf_processor.py
\* What fitz yields for a path: whether fitz.open succeeds, each page's
\* get_text(), and the page (0: none) whose load_page/get_text raises.
PageTexts ==
    { X(7990),
      Placeholder,
      <<Run("x", 1), Run("\t", 1), Run("\n", 1), Run(" ", 1), Run("x", 1)>>,
      X(50001),
      <<Run(" ", 1), Run("\n", 1)>>,
      <<>> }

SeqsUpTo(S, n) == UNION { [1..k -> S] : k \in 0..n }

Pdfs ==
    { [openable |-> FALSE, pages |-> <<>>, bad_page |-> 0] }
    \cup UNION { { [openable |-> TRUE, pages |-> p, bad_page |-> b] :
                     b \in 0..Len(p) } : p \in SeqsUpTo(PageTexts, MaxPages) }

\* An exception on its way out of a block, as a value no string equals.
Raised == <<Run("raise", 0)>>

\* Mutant: a page that raises ends the loop with the text read so far.
RECURSIVE ReadPages_KeepsPartial(_, _, _)
ReadPages_KeepsPartial(pdf, page_num, text) ==
    IF page_num > Len(pdf.pages) THEN text
    ELSE IF pdf.bad_page = page_num THEN text
    ELSE ReadPages_KeepsPartial(pdf, page_num + 1, Cat(text, pdf.pages[page_num]))

\* Mutant: each page's text is put before the text read so far.
RECURSIVE ReadPages_Prepends(_, _, _)
ReadPages_Prepends(pdf, page_num, text) ==
    IF page_num > Len(pdf.pages) THEN text
    ELSE IF pdf.bad_page = page_num THEN Raised
    ELSE ReadPages_Prepends(pdf, page_num + 1, Cat(pdf.pages[page_num], text))

\* The loop `for page_num in range(len(doc)): text += page.get_text()`,
\* from page_num on; Raised when a page raises.
RECURSIVE ReadPages(_, _, _)
ReadPages(pdf, page_num, text) ==
    IF page_num > Len(pdf.pages) THEN text
    ELSE IF pdf.bad_page = page_num THEN Raised
    ELSE ReadPages(pdf, page_num + 1, Cat(text, pdf.pages[page_num]))

\* Mutant: the text is returned as read, without the cleaning of line 20.
CleanText_Skipped(text) == text

\* text = ' '.join(text.split())
CleanText(text) == Join(<<Run(" ", 1)>>, Split(text))

\* The try block of lines 10-21: the text returned, or Raised.
ExtractBody(pdf) ==
    IF ~pdf.openable THEN Raised
    ELSE LET text == ReadPages(pdf, 1, <<>>)
         IN  IF text = Raised THEN Raised ELSE CleanText(text)

\* try: ... except Exception: return None
extract_text_from_pdf(pdf) ==
    IF ExtractBody(pdf) = Raised THEN None ELSE ExtractBody(pdf)

\* No document: extract_text_from_pdf is not running.
NoPdf == [openable |-> FALSE, pages |-> <<>>, bad_page |-> 0 - 1]

\* ------------------------------------------------------- observable events
\* Everything the program does to the outside, in order: log records,
\* prints to standard output, API requests and sleeps.
Log(level, msg) == [ev |-> "log", level |-> level, msg |-> msg]
Emit(text) == [ev |-> "print", text |-> text]
Sleep(secs) == [ev |-> "sleep", secs |-> secs]
Request(bot, system, user) ==
    [ev |-> "request", model |-> bot.model, temperature |-> bot.temperature,
     system |-> system, user |-> user]

\* The log records of extract_text_from_pdf.
ExtractLogs(pdf) ==
    <<Log("INFO", "Opening PDF")>>
    \o (IF ~pdf.openable THEN <<>>
        ELSE <<Log("INFO", "Extracting text from pages")>>)
    \o (IF ExtractBody(pdf) = Raised
        THEN <<Log("ERROR", "Error processing PDF")>>
        ELSE <<Log("INFO", "Successfully extracted")>>)

IsRequest(e) == e.ev = "request"
IsSleep(e) == e.ev = "sleep"
IsPrint(e) == e.ev = "print"
Requests(tr) == SelectSeq(tr, IsRequest)
Sleeps(tr) == SelectSeq(tr, IsSleep)
Stdout(tr) == SelectSeq(tr, IsPrint)

\* ------------------------------------------------------------- the API
\* The exception classes of the openai package that chatbot.py imports, with
\* the classes each derives from.
Mro(e) ==
    CASE e = "RateLimitError" ->
            {"RateLimitError", "APIStatusError", "APIError", "OpenAIError", "Exception"}
      [] e = "InternalServerError" ->
            {"InternalServerError", "APIStatusError", "APIError", "OpenAIError", "Exception"}
      [] e = "AuthenticationError" ->
            {"AuthenticationError", "APIStatusError", "APIError", "OpenAIError", "Exception"}
      [] e = "BadRequestError" ->
            {"BadRequestError", "APIStatusError", "APIError", "OpenAIError", "Exception"}
      [] e = "APIConnectionError" ->
            {"APIConnectionError", "APIError", "OpenAIError", "Exception"}
      [] OTHER -> {e, "Exception"}

IsInstance(e, cls) == cls \in Mro(e)

Exceptions ==
    {"RateLimitError", "InternalServerError", "AuthenticationError",
     "BadRequestError", "APIConnectionError", "RuntimeError"}

\* message.content of a completion.
Contents ==
    { None,
      <<>>,
      <<Run(" ", 1)>>,
      X(1),
      <<Run(" ", 1), Run("x", 1), Run("\n", 1)>>,
      Placeholder }

NoOutcome ==
    [got |-> "nothing", raised |-> "", choices |-> 0, message |-> FALSE,
     content |-> None]
Raises(e) ==
    [got |-> "exception", raised |-> e, choices |-> 0, message |-> FALSE,
     content |-> None]
Completion(choices, message, content) ==
    [got |-> "response", raised |-> "", choices |-> choices,
     message |-> message, content |-> content]

\* What one chat.completions.create call can do.
ApiOutcomes ==
    { Raises(e) : e \in Exceptions }
    \cup { Completion(0, FALSE, None), Completion(1, FALSE, None) }
    \cup { Completion(1, TRUE, c) : c \in Contents }

\* ------------------------------------------------------------------- state
VARIABLES
    pc,                  \* where run_digestion_pipeline stands ("direct": not running)
    pdf,                 \* the document behind pdf_path, while its text is in use
    api_key,             \* os.getenv("OPENAI_API_KEY")
    paper_text,
    initial_extraction,
    final_digest,
    trace,               \* the observable events so far, in order
    llm_pc,              \* _call_llm: "idle", "loop" (at the while test), "returned"
    self,                \* the Chatbot whose _call_llm runs
    system_prompt,
    user_prompt,
    max_retries,
    delay,
    attempt,
    outcome,             \* what the latest API request of this call did
    call_start,          \* the number of events before this call of _call_llm
    result               \* the value _call_llm returned

vars ==
    <<pc, pdf, api_key, paper_text, initial_extraction, final_digest, trace, llm_pc,
      self, system_prompt, user_prompt, max_retries, delay, attempt, outcome,
      call_start, result>>

pipeline_vars == <<pc, pdf, api_key, paper_text, initial_extraction, final_digest>>
args_vars == <<self, system_prompt, user_prompt, max_retries, delay, call_start>>

\* The events of the current (or latest) call of _call_llm.
CallTrace == SubSeq(trace, call_start + 1, Len(trace))

\* ---------------------------------------------------------------- chatbot.py
\* Chatbot(model, temperature) with OPENAI_API_KEY set.
Chatbot(model, temperature) == [model |-> model, temperature |-> temperature]

\* Mutant: only an unset key raises, an empty one is accepted.
InitRaises_OnlyNone == api_key = None

\* Chatbot.__init__: `if not api_key: raise ValueError`.
InitRaises == Falsy(api_key)

\* Entry of _call_llm, after the events `pre` of its caller: attempt = 0.
call_llm(pre, bot, system, user, retries, secs) ==
    /\ trace' = trace \o pre
    /\ call_start' = Len(trace) + Len(pre)
    /\ self' = bot
    /\ system_prompt' = system
    /\ user_prompt' = user
    /\ max_retries' = retries
    /\ delay' = secs
    /\ attempt' = 0
    /\ outcome' = NoOutcome
    /\ result' = None
    /\ llm_pc' = "loop"

\* Mutant: execute_task asks for one more attempt than the default.
execute_task_ExtraAttempt(pre, bot, role_prompt, task_prompt) ==
    call_llm(pre \o <<Log("INFO", "Executing task with role")>>,
             bot, role_prompt, task_prompt, DefaultMaxRetries + 1, DefaultDelay)

\* execute_task: logs the role and calls _call_llm with its defaults.
execute_task(pre, bot, role_prompt, task_prompt) ==
    call_llm(pre \o <<Log("INFO", "Executing task with role")>>,
             bot, role_prompt, task_prompt, DefaultMaxRetries, DefaultDelay)

\* One pass of the while body up to the API's answer: the progress log and
\* the request.
Attempting ==
    <<[ev |-> "log", level |-> "INFO", msg |-> "Calling LLM", n |-> attempt + 1],
      Request(self, system_prompt, user_prompt)>>

\* Mutant: the loop test off by one.
LoopTest_OffByOne == attempt <= max_retries

\* while attempt < max_retries
LoopTest == attempt < max_retries

InLoop == llm_pc = "loop" /\ LoopTest

\* if content:
ContentPresent(content) == ~Falsy(content)

\* The except clause that catches e: the first, in order, whose class e is
\* an instance of.
Handler(e) ==
    IF IsInstance(e, "RateLimitError") THEN "RateLimitError"
    ELSE IF IsInstance(e, "APIError") THEN "APIError"
    ELSE "Exception"

Return(events, value) ==
    /\ trace' = trace \o Attempting \o events
    /\ result' = value
    /\ llm_pc' = "returned"
    /\ UNCHANGED <<attempt, pipeline_vars, args_vars>>

\* Mutant: the retrying handler forgets attempt += 1.
Retry_NoIncrement(events) ==
    /\ trace' = trace \o Attempting \o events \o <<Sleep(delay)>>
    /\ attempt' = attempt
    /\ UNCHANGED <<llm_pc, result, pipeline_vars, args_vars>>

\* A retrying handler: time.sleep(delay); attempt += 1; back to the while test.
Retry(events) ==
    /\ trace' = trace \o Attempting \o events \o <<Sleep(delay)>>
    /\ attempt' = attempt + 1
    /\ UNCHANGED <<llm_pc, result, pipeline_vars, args_vars>>

\* Mutant: the content is returned as received.
LLMSuccess_NoStrip ==
    /\ InLoop
    /\ \E o \in ApiOutcomes :
          /\ o.got = "response" /\ o.choices > 0 /\ o.message
          /\ ContentPresent(o.content)
          /\ outcome' = o
          /\ Return(<<Log("INFO", "LLM call successful.")>>, o.content)

\* if response.choices and response.choices[0].message: if content: return content.strip()
LLMSuccess ==
    /\ InLoop
    /\ \E o \in ApiOutcomes :
          /\ o.got = "response" /\ o.choices > 0 /\ o.message
          /\ ContentPresent(o.content)
          /\ outcome' = o
          /\ Return(<<Log("INFO", "LLM call successful.")>>, Strip(o.content))

\* Mutant: an empty message is retried like a transient fault.
LLMEmptyMessage_Retries ==
    /\ InLoop
    /\ \E o \in ApiOutcomes :
          /\ o.got = "response" /\ o.choices > 0 /\ o.message
          /\ ~ContentPresent(o.content)
          /\ outcome' = o
          /\ Retry(<<Log("WARNING", "LLM returned an empty message.")>>)

\* ... else: return None
LLMEmptyMessage ==
    /\ InLoop
    /\ \E o \in ApiOutcomes :
          /\ o.got = "response" /\ o.choices > 0 /\ o.message
          /\ ~ContentPresent(o.content)
          /\ outcome' = o
          /\ Return(<<Log("WARNING", "LLM returned an empty message.")>>, None)

\* else: return None
LLMUnexpectedStructure ==
    /\ InLoop
    /\ \E o \in ApiOutcomes :
          /\ o.got = "response" /\ ~(o.choices > 0 /\ o.message)
          /\ outcome' = o
          /\ Return(<<Log("WARNING", "LLM response structure unexpected or empty.")>>,
                    None)

\* except RateLimitError: sleep, attempt += 1
LLMRateLimitError ==
    /\ InLoop
    /\ \E o \in ApiOutcomes :
          /\ o.got = "exception" /\ Handler(o.raised) = "RateLimitError"
          /\ outcome' = o
          /\ Retry(<<Log("WARNING", "Rate limit exceeded. Retrying")>>)

\* except APIError: sleep, attempt += 1
LLMAPIError ==
    /\ InLoop
    /\ \E o \in ApiOutcomes :
          /\ o.got = "exception" /\ Handler(o.raised) = "APIError"
          /\ outcome' = o
          /\ Retry(<<Log("WARNING", "API error occurred. Retrying")>>)

\* Mutant: the catch-all handler retries too.
LLMUnexpectedError_Retries ==
    /\ InLoop
    /\ \E o \in ApiOutcomes :
          /\ o.got = "exception" /\ Handler(o.raised) = "Exception"
          /\ outcome' = o
          /\ Retry(<<Log("ERROR", "An unexpected error occurred during LLM call")>>)

\* except Exception: return None
LLMUnexpectedError ==
    /\ InLoop
    /\ \E o \in ApiOutcomes :
          /\ o.got = "exception" /\ Handler(o.raised) = "Exception"
          /\ outcome' = o
          /\ Return(<<Log("ERROR", "An unexpected error occurred during LLM call")>>,
                    None)

\* The while test fails: return None.
LLMRetriesExhausted ==
    /\ llm_pc = "loop"
    /\ ~LoopTest
    /\ trace' = trace \o <<Log("ERROR", "LLM call failed after multiple retries.")>>
    /\ result' = None
    /\ llm_pc' = "returned"
    /\ UNCHANGED <<attempt, outcome, pipeline_vars, args_vars>>

LLMStep ==
    \/ LLMSuccess
    \/ LLMEmptyMessage
    \/ LLMUnexpectedStructure
    \/ LLMRateLimitError
    \/ LLMAPIError
    \/ LLMUnexpectedError
    \/ LLMRetriesExhausted

\* A caller other than the pipeline: _call_llm with arguments of its choice.
Delays == {0, DefaultDelay}
DirectCall ==
    /\ pc = "direct"
    /\ llm_pc = "idle"
    /\ \E retries \in (0 - 1)..MaxRetriesArg, secs \in Delays :
          call_llm(<<>>, Chatbot("gpt-3.5-turbo", "0.5"), Lit("system_prompt"),
                   Lit("user_prompt"), retries, secs)
    /\ UNCHANGED pipeline_vars

InitCall ==
    /\ llm_pc = "idle"
    /\ self = Chatbot("", "")
    /\ system_prompt = <<>>
    /\ user_prompt = <<>>
    /\ max_retries = 0
    /\ delay = 0
    /\ attempt = 0
    /\ outcome = NoOutcome
    /\ call_start = 0
    /\ result = None
    /\ trace = <<>>

\* ------------------------------------------------------------ main_digester.py
LLM_MODEL == "gpt-3.5-turbo"
extractor_bot == Chatbot(LLM_MODEL, "0.3")
synthesizer_bot == Chatbot(LLM_MODEL, "0.6")
extractor_role == Lit("extractor_role")
synthesizer_role == Lit("synthesizer_role")

\* The f-string of lines 52-67, evaluated: the literal text around the value
\* of paper_text[:8000].
extraction_prompt(text) ==
    Cat(Cat(Lit("extraction_prompt: Carefully read ... ---"), Slice(text, SliceLen)),
        Lit("extraction_prompt: --- [Note: Only the first 8000 characters ...]"))

\* The f-string of lines 82-102, evaluated.
synthesis_prompt(extraction, text) ==
    Cat(Cat(Cat(Cat(Lit("synthesis_prompt: You have been provided ... ---"),
                    extraction),
                Lit("synthesis_prompt: --- Full Paper Text ... ---")),
            Slice(text, SliceLen)),
        Lit("synthesis_prompt: --- [Note: ... potentially truncated.] ..."))

\* Mutant: a short text aborts like a missing one.
NoPaperText_OrShort(text) == Falsy(text) \/ StrLen(text) < ShortTextWarn

\* Mutant: only None aborts, an empty text goes on.
NoPaperText_IsNone(text) == text = None

\* if not paper_text:
NoPaperText(text) == Falsy(text)

\* Mutant: only None aborts, an empty result goes on.
NoInitialExtraction_IsNone(value) == value = None

\* if not initial_extraction:
NoInitialExtraction(value) == Falsy(value)

\* if not final_digest:
NoFinalDigest(value) == Falsy(value)

\* Lines 20-24: paper_text = extract_text_from_pdf(pdf_path).
Step1Extract ==
    /\ pc = "start"
    /\ \E doc \in Pdfs :
          /\ pdf' = doc
          /\ paper_text' = extract_text_from_pdf(doc)
          /\ trace' = trace
                \o <<Log("INFO", "Starting Research Paper Digestion"),
                     Log("INFO", "Step 1: Extracting text from PDF...")>>
                \o ExtractLogs(doc)
    /\ pc' = "extracted"
    /\ UNCHANGED <<api_key, initial_extraction, final_digest, llm_pc, args_vars,
                   attempt, outcome, result>>

\* Lines 29-34: the advisory length checks.
LengthWarnings(text) ==
    IF StrLen(text) > MAX_TEXT_LENGTH_WARN
    THEN <<Log("WARNING", "Extracted text is long")>>
    ELSE IF StrLen(text) < ShortTextWarn
    THEN <<Log("WARNING", "Extracted text is very short")>>
    ELSE <<>>

\* Lines 25-34: abort when there is no text; warn on its length.
Step1Check ==
    /\ pc = "extracted"
    /\ IF NoPaperText(paper_text)
       THEN /\ trace' = trace \o <<Log("ERROR", "Failed to extract text. Aborting.")>>
            /\ pc' = "done"
       ELSE /\ trace' = trace \o <<Log("INFO", "Text extracted")>>
                  \o LengthWarnings(paper_text)
            /\ pc' = "init_chatbots"
    /\ pdf' = NoPdf
    /\ UNCHANGED <<api_key, paper_text, initial_extraction, final_digest, llm_pc,
                   args_vars, attempt, outcome, result>>

\* Lines 37-46: construct the two chatbots; abort when the constructor raises.
Step2InitChatbots ==
    /\ pc = "init_chatbots"
    /\ IF InitRaises
       THEN /\ trace' = trace \o <<Log("ERROR", "Failed to initialize chatbots")>>
            /\ pc' = "done"
       ELSE /\ trace' = trace \o <<Log("INFO", "Chatbot initialized"),
                                   Log("INFO", "Chatbot initialized")>>
            /\ pc' = "extractor"
    /\ UNCHANGED <<pdf, api_key, paper_text, initial_extraction, final_digest, llm_pc,
                   args_vars, attempt, outcome, result>>

\* Lines 49-70: the extraction prompt and the extractor's execute_task.
ExtractorCall ==
    /\ pc = "extractor"
    /\ execute_task(<<Log("INFO", "Step 2: Extractor Bot Processing")>>,
                    extractor_bot, extractor_role,
                    Replace(extraction_prompt(paper_text), paper_text))
    /\ pc' = "extractor_called"
    /\ UNCHANGED <<pdf, api_key, paper_text, initial_extraction, final_digest>>

\* Mutant: the extractor's result is kept but not printed.
ExtractorReturn_NoPrint ==
    /\ pc = "extractor_called"
    /\ llm_pc = "returned"
    /\ initial_extraction' = result
    /\ IF NoInitialExtraction(result)
       THEN /\ trace' = trace
                  \o <<Log("ERROR", "Extractor Bot failed to produce an output. Aborting.")>>
            /\ pc' = "done"
       ELSE /\ trace' = trace
            /\ pc' = "synthesizer"
    /\ llm_pc' = "idle"
    /\ UNCHANGED <<pdf, api_key, paper_text, final_digest, args_vars, attempt, outcome,
                   result>>

\* Lines 70-76: the extractor's result; abort when there is none, print it
\* otherwise.
ExtractorReturn ==
    /\ pc = "extractor_called"
    /\ llm_pc = "returned"
    /\ initial_extraction' = result
    /\ IF NoInitialExtraction(result)
       THEN /\ trace' = trace
                  \o <<Log("ERROR", "Extractor Bot failed to produce an output. Aborting.")>>
            /\ pc' = "done"
       ELSE /\ trace' = trace \o <<Emit(Lit("--- Extractor Bot Output ---")),
                                   Emit(result)>>
            /\ pc' = "synthesizer"
    /\ llm_pc' = "idle"
    /\ UNCHANGED <<pdf, api_key, paper_text, final_digest, args_vars, attempt, outcome,
                   result>>

\* Lines 79-104: the synthesis prompt and the synthesizer's execute_task.
SynthesizerCall ==
    /\ pc = "synthesizer"
    /\ execute_task(<<Log("INFO", "Step 3: Synthesizer/Critic Bot Processing")>>,
                    synthesizer_bot, synthesizer_role,
                    Replace(synthesis_prompt(initial_extraction, paper_text),
                            paper_text))
    /\ pc' = "synthesizer_called"
    /\ UNCHANGED <<pdf, api_key, paper_text, initial_extraction, final_digest>>

\* Mutant: the digest is printed without its header.
SynthesizerReturn_NoHeader ==
    /\ pc = "synthesizer_called"
    /\ llm_pc = "returned"
    /\ final_digest' = result
    /\ IF NoFinalDigest(result)
       THEN trace' = trace
                \o <<Log("ERROR", "Synthesizer Bot failed to produce an output."),
                     Emit(Lit("--- Final Digest: FAILED ---"))>>
       ELSE trace' = trace
                \o <<Emit(result),
                     Log("INFO", "Digestion Pipeline Completed")>>
    /\ pc' = "done"
    /\ llm_pc' = "idle"
    /\ UNCHANGED <<pdf, api_key, paper_text, initial_extraction, args_vars, attempt,
                   outcome, result>>

\* Lines 104-113: the synthesizer's result; report the failure or print the
\* digest.
SynthesizerReturn ==
    /\ pc = "synthesizer_called"
    /\ llm_pc = "returned"
    /\ final_digest' = result
    /\ IF NoFinalDigest(result)
       THEN trace' = trace
                \o <<Log("ERROR", "Synthesizer Bot failed to produce an output."),
                     Emit(Lit("--- Final Digest: FAILED ---"))>>
       ELSE trace' = trace
                \o <<Emit(Lit("--- Final Synthesized Digest ---")),
                     Emit(result),
                     Log("INFO", "Digestion Pipeline Completed")>>
    /\ pc' = "done"
    /\ llm_pc' = "idle"
    /\ UNCHANGED <<pdf, api_key, paper_text, initial_extraction, args_vars, attempt,
                   outcome, result>>

\* The environment's OPENAI_API_KEY: unset, empty or set.
ApiKeys == { None, <<>>, Lit("sk-key") }

\* Either the pipeline is about to run, in any environment, or a Chatbot
\* has been constructed and its _call_llm is about to be called directly.
Init ==
    /\ pc \in {"start", "direct"}
    /\ api_key \in ApiKeys
    /\ pc = "direct" => ~InitRaises
    /\ pdf = NoPdf
    /\ paper_text = None
    /\ initial_extraction = None
    /\ final_digest = None
    /\ InitCall

Next ==
    \/ Step1Extract
    \/ Step1Check
    \/ Step2InitChatbots
    \/ ExtractorCall
    \/ ExtractorReturn
    \/ SynthesizerCall
    \/ SynthesizerReturn
    \/ DirectCall
    \/ LLMStep

Spec == Init /\ [][Next]_vars

\* ==================================================================== claims
InPipeline == pc # "direct"

\* The requests and the retried failures of the current call of _call_llm.
CallRequests == Len(Requests(CallTrace))
CallSleeps == Len(Sleeps(CallTrace))
IsRetryLog(e) ==
    /\ e.ev = "log"
    /\ e.msg \in {"Rate limit exceeded. Retrying", "API error occurred. Retrying"}
CallRetryableFailures == Len(SelectSeq(CallTrace, IsRetryLog))

\* The call has just returned: nothing has happened since.
Returned == llm_pc = "returned"

\* The requests a call may make: max_retries, none when that is not positive.
RequestLimit == IF max_retries > 0 THEN max_retries ELSE 0

\* The latest request was answered by a completion with non-empty content.
GotContent ==
    /\ outcome.got = "response" /\ outcome.choices > 0 /\ outcome.message
    /\ outcome.content # None /\ outcome.content # <<>>

\* The call ended on its latest request: that request and one log record are
\* its last two events, so no request and no sleep followed it.
EndedOnRequest ==
    /\ Len(CallTrace) >= 2
    /\ CallTrace[Len(CallTrace) - 1].ev = "request"
    /\ CallTrace[Len(CallTrace)].ev = "log"

\* Python's `t in s` on two strings.
Contains(s, t) ==
    LET m == Len(t)
    IN  \/ m = 0
        \/ \E i \in 1..(Len(s) - m + 1) :
              /\ s[i].c = t[1].c
              /\ s[i + m - 1].c = t[m].c
              /\ IF m = 1 THEN s[i].n >= t[1].n
                 ELSE /\ s[i].n >= t[1].n
                      /\ s[i + m - 1].n >= t[m].n
                      /\ \A j \in 2..(m - 1) : s[i + j - 1] = t[j]

\* ---- C1 (as stated; refuted): every task prompt the pipeline sends to the
\* API contains the whole document text, whatever its length.
C1_FullTextSent ==
    InPipeline =>
        \A i \in DOMAIN trace :
            trace[i].ev = "request" => Contains(trace[i].user, paper_text)

\* ---- C2 (as stated; refuted): after k < max_retries retryable failures and
\* then a non-empty completion, the call returns the completion's content
\* itself, having made k+1 requests.
C2_ReturnsContent ==
    (Returned /\ GotContent) =>
        /\ result = outcome.content
        /\ CallRequests = CallRetryableFailures + 1

\* ---- C2 (amended): after k < max_retries retryable failures and then a
\* non-empty completion, the call returns the completion's content with its
\* leading and trailing whitespace stripped, having made exactly k+1 requests.
C2_ReturnsStrippedContent ==
    (Returned /\ GotContent) =>
        /\ result = Strip(outcome.content)
        /\ CallRetryableFailures < max_retries
        /\ CallRequests = CallRetryableFailures + 1

C2_Witness ==
    /\ Returned /\ GotContent
    /\ CallRetryableFailures = 2 /\ max_retries = 3
    /\ outcome.content # Strip(outcome.content)
    /\ result = X(1)

\* ---- C3: a call never makes more than max_retries requests; when every
\* request of a call failed with a retryable error, the call returns None
\* after exactly max_retries requests (none when max_retries is not
\* positive), and None is returned on that account only then.
C3_RetriesExhausted ==
    /\ llm_pc # "idle" => CallRequests <= RequestLimit
    /\ (Returned /\ CallRequests = CallRetryableFailures) =>
          /\ CallRequests = RequestLimit
          /\ result = None
          /\ trace[Len(trace)] = Log("ERROR", "LLM call failed after multiple retries.")
    /\ (InPipeline /\ llm_pc # "idle") => max_retries = DefaultMaxRetries

C3_Witness ==
    /\ InPipeline /\ Returned
    /\ CallRetryableFailures = 3 /\ CallRequests = 3
    /\ result = None

\* ---- C4: when a request raises an exception that is neither a rate-limit
\* error nor an API error, the call returns None at once: no request and no
\* sleep follows; raised on the first request, the call made one request.
C4_OtherExceptionFatal ==
    (/\ llm_pc # "idle"
     /\ outcome.got = "exception"
     /\ ~IsInstance(outcome.raised, "RateLimitError")
     /\ ~IsInstance(outcome.raised, "APIError")) =>
        /\ Returned
        /\ result = None
        /\ EndedOnRequest
        /\ CallRequests = CallSleeps + 1
        /\ attempt = 0 => (CallRequests = 1 /\ CallSleeps = 0)

C4_Witness ==
    /\ Returned /\ outcome = Raises("RuntimeError")
    /\ attempt = 0 /\ CallRequests = 1 /\ result = None

\* ---- C5: when a request succeeds but the response has no choices, no
\* message or an empty content, the call returns None at once, without retry
\* or sleep; on the first request, the call made one request.
C5_EmptyCompletionFatal ==
    (/\ llm_pc # "idle"
     /\ outcome.got = "response"
     /\ \/ outcome.choices = 0
        \/ ~outcome.message
        \/ outcome.content = None
        \/ outcome.content = <<>>) =>
        /\ Returned
        /\ result = None
        /\ EndedOnRequest
        /\ CallRequests = CallSleeps + 1
        /\ attempt = 0 => (CallRequests = 1 /\ CallSleeps = 0)

C5_Witness ==
    /\ Returned /\ outcome = Completion(1, TRUE, <<>>)
    /\ attempt = 0 /\ CallRequests = 1 /\ result = None

IsChatbotInitLog(e) ==
    /\ e.ev = "log"
    /\ e.msg \in {"Chatbot initialized", "Failed to initialize chatbots"}

\* ---- C6: when extraction yields None or the empty text, the pipeline is
\* over: no chatbot was constructed, no API request was made and nothing was
\* printed.
C6_NoTextHalts ==
    (InPipeline /\ pc \notin {"start", "extracted"}
     /\ (paper_text = None \/ paper_text = <<>>)) =>
        /\ pc = "done"
        /\ llm_pc = "idle"
        /\ Requests(trace) = <<>>
        /\ Stdout(trace) = <<>>
        /\ SelectSeq(trace, IsChatbotInitLog) = <<>>

C6_Witness ==
    /\ pc = "done" /\ paper_text = <<>> /\ api_key = Lit("sk-key")
    /\ trace[Len(trace)] = Log("ERROR", "Failed to extract text. Aborting.")

IsSynthesisFailure(e) ==
    \/ e = Log("ERROR", "Synthesizer Bot failed to produce an output.")
    \/ e = Emit(Lit("--- Final Digest: FAILED ---"))

\* ---- C7: whenever the synthesis failure is reported, the extractor output
\* block (header, then the non-empty extraction result) was printed before
\* it; standard output is then exactly that block followed by the failure
\* line.
C7_ExtractionShownBeforeFailure ==
    /\ \A j \in DOMAIN trace :
          IsSynthesisFailure(trace[j]) =>
             \E i \in 1..(j - 2) :
                /\ trace[i] = Emit(Lit("--- Extractor Bot Output ---"))
                /\ trace[i + 1] = Emit(initial_extraction)
                /\ initial_extraction # None /\ initial_extraction # <<>>
    /\ (pc = "done" /\ Requests(trace) # <<>>
        /\ initial_extraction # None /\ initial_extraction # <<>>
        /\ (final_digest = None \/ final_digest = <<>>)) =>
          Stdout(trace) = <<Emit(Lit("--- Extractor Bot Output ---")),
                            Emit(initial_extraction),
                            Emit(Lit("--- Final Digest: FAILED ---"))>>

C7_Witness ==
    /\ pc = "done"
    /\ initial_extraction = X(1)
    /\ final_digest = None
    /\ trace[Len(trace)] = Emit(Lit("--- Final Digest: FAILED ---"))

IsSynthesizerRequest(e) == e.ev = "request" /\ e.system = synthesizer_role
IsExtractorRequest(e) == e.ev = "request" /\ e.system = extractor_role

\* ---- C8: once the extraction-stage call has returned None or the empty
\* string, the pipeline is over: no synthesis-stage request is made and
\* nothing is printed, neither the extractor block nor a digest block.
C8_ExtractorFailureAborts ==
    (/\ pc \in {"synthesizer", "synthesizer_called", "done"}
     /\ SelectSeq(trace, IsExtractorRequest) # <<>>
     /\ (initial_extraction = None \/ initial_extraction = <<>>)) =>
        /\ pc = "done"
        /\ SelectSeq(trace, IsSynthesizerRequest) = <<>>
        /\ Stdout(trace) = <<>>
        /\ trace[Len(trace)]
             = Log("ERROR", "Extractor Bot failed to produce an output. Aborting.")

C8_Witness ==
    /\ pc = "done"
    /\ SelectSeq(trace, IsExtractorRequest) # <<>>
    /\ initial_extraction = <<>>
    /\ outcome.content = <<Run(" ", 1)>>

\* ---- C9: with OPENAI_API_KEY unset or empty, the pipeline never gets past
\* chatbot construction: no API request is made and nothing is printed,
\* whatever text was extracted; it ends on the construction error.
C9_MissingKeyAborts ==
    (InPipeline /\ (api_key = None \/ api_key = <<>>)) =>
        /\ pc \in {"start", "extracted", "init_chatbots", "done"}
        /\ llm_pc = "idle"
        /\ Requests(trace) = <<>>
        /\ Stdout(trace) = <<>>
        /\ (pc = "done" /\ paper_text # None /\ paper_text # <<>>) =>
              trace[Len(trace)] = Log("ERROR", "Failed to initialize chatbots")

C9_Witness ==
    /\ pc = "done" /\ api_key = <<>>
    /\ StrLen(paper_text) > SliceLen
    /\ trace[Len(trace)] = Log("ERROR", "Failed to initialize chatbots")

\* ---- C10 (as stated; refuted): an authentication error or a
\* malformed-request error ends the call at once with None: no retry, no
\* sleep.
C10_AuthErrorFatal ==
    (/\ llm_pc # "idle"
     /\ outcome.got = "exception"
     /\ outcome.raised \in {"AuthenticationError", "BadRequestError"}) =>
        /\ Returned
        /\ result = None
        /\ EndedOnRequest

\* extract_text_from_pdf has just returned: pdf is its document, paper_text
\* its result.
Extracted == pc = "extracted"

\* The document opens and reads without error but holds no text: no page,
\* or pages of nothing but whitespace.
NoTextPdf ==
    /\ pdf.openable
    /\ pdf.bad_page = 0
    /\ \A p \in DOMAIN pdf.pages :
          \A i \in DOMAIN pdf.pages[p] : IsSpace(pdf.pages[p][i].c)

\* ---- C11: for a PDF with no page, or whose pages yield no text,
\* extract_text_from_pdf returns normally, and what it returns is the empty
\* text, which its callers' `if not paper_text` takes for absence.
C11_NoTextIsAbsence ==
    (Extracted /\ NoTextPdf) =>
        /\ paper_text = <<>>
        /\ NoPaperText(paper_text)

C11_Witness ==
    /\ Extracted
    /\ Len(pdf.pages) = 2 /\ pdf.bad_page = 0
    /\ pdf.pages[1] = <<Run(" ", 1), Run("\n", 1)>>
    /\ pdf.pages[2] = <<>>
    /\ paper_text = <<>>

\* ---- C12: when opening the document or reading one of its pages raises,
\* extract_text_from_pdf returns None, whatever was read from earlier pages.
C12_FailureReturnsNone ==
    (Extracted /\ (~pdf.openable \/ pdf.bad_page \in 1..Len(pdf.pages))) =>
        paper_text = None

C12_Witness ==
    /\ Extracted
    /\ Len(pdf.pages) = 2 /\ pdf.bad_page = 2
    /\ pdf.pages[1] = X(7990)
    /\ paper_text = None

\* The pages' texts, one after the other.
RECURSIVE ConcatPages(_)
ConcatPages(pages) ==
    IF pages = <<>> THEN <<>>
    ELSE Cat(ConcatPages(SubSeq(pages, 1, Len(pages) - 1)), pages[Len(pages)])

\* Every maximal stretch of whitespace replaced by one space.
RECURSIVE Collapse(_)
Collapse(s) ==
    IF s = <<>> THEN <<>>
    ELSE IF IsSpace(s[1].c) THEN <<Run(" ", 1)>> \o Collapse(LStrip(s))
    ELSE <<s[1]>> \o Collapse(Tail(s))

\* Without the space a string starts or ends with.
Trim(s) ==
    LET a == IF s # <<>> /\ s[1].c = " " THEN Tail(s) ELSE s
    IN  IF a # <<>> /\ a[Len(a)].c = " " THEN SubSeq(a, 1, Len(a) - 1) ELSE a

\* ---- C13: a text returned by extract_text_from_pdf has no tab and no
\* newline, its spaces stand alone and strictly inside it, it is the pages'
\* texts in page order with every whitespace stretch collapsed to one space
\* and the ends trimmed, and cleaning it again changes nothing.
C13_TextNormalized ==
    (Extracted /\ paper_text # None) =>
        /\ \A i \in DOMAIN paper_text :
              /\ paper_text[i].c \notin {"\t", "\n"}
              /\ paper_text[i].c = " " =>
                    (paper_text[i].n = 1 /\ 1 < i /\ i < Len(paper_text))
              /\ i > 1 => paper_text[i].c # paper_text[i - 1].c
        /\ paper_text = Trim(Collapse(ConcatPages(pdf.pages)))
        /\ CleanText(paper_text) = paper_text

C13_Witness ==
    /\ Extracted
    /\ Len(pdf.pages) = 2
    /\ pdf.pages[1] = <<Run("x", 1), Run("\t", 1), Run("\n", 1), Run(" ", 1), Run("x", 1)>>
    /\ pdf.pages[2] = X(7990)
    /\ paper_text = <<Run("x", 1), Run(" ", 1), Run("x", 7991)>>

HasLog(msg) == \E i \in DOMAIN trace : trace[i].ev = "log" /\ trace[i].msg = msg

\* ---- C14: a non-empty extracted text never ends the pipeline at the length
\* checks, however short or long: the pipeline warns (long above 50000
\* characters, short below 500), goes on to construct the chatbots and,
\* with the credential set, makes the extraction-stage request.
C14_LengthOnlyWarns ==
    (InPipeline /\ pc \notin {"start", "extracted"}
     /\ paper_text # None /\ paper_text # <<>>) =>
        /\ HasLog("Text extracted")
        /\ ~HasLog("Failed to extract text. Aborting.")
        /\ HasLog("Extracted text is long") <=> StrLen(paper_text) > MAX_TEXT_LENGTH_WARN
        /\ HasLog("Extracted text is very short") <=> StrLen(paper_text) < ShortTextWarn
        /\ pc = "done" => SelectSeq(trace, IsChatbotInitLog) # <<>>
        /\ (pc = "done" /\ api_key # None /\ api_key # <<>>) =>
              SelectSeq(trace, IsExtractorRequest) # <<>>

C14_Witness ==
    /\ pc = "extractor_called"
    /\ StrLen(paper_text) = 3
    /\ HasLog("Extracted text is very short")
    /\ SelectSeq(trace, IsExtractorRequest) # <<>>

\* ---- C15: when both stages succeed, standard output is exactly the
\* extractor block (header, extraction result) followed by the digest block
\* (header, digest); the digest header is never printed without the
\* extractor block before it and the digest right after it.
C15_TwoBlocksInOrder ==
    /\ (pc = "done"
        /\ initial_extraction # None /\ initial_extraction # <<>>
        /\ final_digest # None /\ final_digest # <<>>) =>
          Stdout(trace) = <<Emit(Lit("--- Extractor Bot Output ---")),
                            Emit(initial_extraction),
                            Emit(Lit("--- Final Synthesized Digest ---")),
                            Emit(final_digest)>>
    /\ \A j \in DOMAIN trace :
          trace[j] = Emit(Lit("--- Final Synthesized Digest ---")) =>
             /\ \E i \in 1..(j - 2) :
                   /\ trace[i] = Emit(Lit("--- Extractor Bot Output ---"))
                   /\ trace[i + 1] = Emit(initial_extraction)
             /\ j < Len(trace)
             /\ trace[j + 1] = Emit(final_digest)
    /\ \A j \in DOMAIN trace :
          (trace[j].ev = "print" /\ j > 1 /\ trace[j - 1].ev = "print"
           /\ trace[j - 1] = Emit(Lit("--- Final Synthesized Digest ---"))) =>
             trace[j] = Emit(final_digest)
    /\ (pc = "done" /\ final_digest # None /\ final_digest # <<>>) =>
          HasLog("Digestion Pipeline Completed")

C15_Witness ==
    /\ pc = "done"
    /\ initial_extraction = Placeholder
    /\ final_digest = X(1)
    /\ Len(Stdout(trace)) = 4

\* ---- C16 (as stated; refuted): a call sleeps only between two attempts:
\* every sleep is followed by another request, so a call that made requests
\* slept once less than it requested.
C16_SleepOnlyBetweenAttempts ==
    (Returned /\ CallRequests >= 1) =>
        /\ CallSleeps = CallRequests - 1
        /\ \A i \in DOMAIN CallTrace :
              CallTrace[i].ev = "sleep" =>
                 \E j \in (i + 1)..Len(CallTrace) : CallTrace[j].ev = "request"

\* ---- C17 (as stated; refuted): what _call_llm returns is None or a
\* non-empty string.
C17_ResultNoneOrNonEmpty ==
    Returned => (result = None \/ result # <<>>)

IsExecuteTaskLog(e) == e.ev = "log" /\ e.msg = "Executing task with role"
IsOpeningLog(e) == e.ev = "log" /\ e.msg = "Opening PDF"

\* ---- C18: in a pipeline run the extractor is called once, execute_task at
\* most twice, every extraction-stage request comes before every
\* synthesis-stage request, each stage makes at most 3 requests and the run
\* at most 6.
C18_LinearRun ==
    InPipeline =>
        /\ Len(SelectSeq(trace, IsOpeningLog)) = (IF pc = "start" THEN 0 ELSE 1)
        /\ Len(SelectSeq(trace, IsExecuteTaskLog)) <= 2
        /\ \A i \in DOMAIN trace :
              trace[i].ev = "request" =>
                 /\ trace[i].system \in {extractor_role, synthesizer_role}
                 /\ Len(SelectSeq(SubSeq(trace, 1, i), IsExecuteTaskLog)) =
                       (IF trace[i].system = extractor_role THEN 1 ELSE 2)
                 /\ trace[i].system = synthesizer_role =>
                       \A j \in (i + 1)..Len(trace) : ~IsExtractorRequest(trace[j])
        /\ Len(SelectSeq(trace, IsExtractorRequest)) <= DefaultMaxRetries
        /\ Len(SelectSeq(trace, IsSynthesizerRequest)) <= DefaultMaxRetries
        /\ Len(Requests(trace)) <= 2 * DefaultMaxRetries

C18_Witness ==
    /\ pc = "done"
    /\ Len(SelectSeq(trace, IsExtractorRequest)) = 3
    /\ Len(SelectSeq(trace, IsSynthesizerRequest)) = 3
    /\ Len(SelectSeq(trace, IsExecuteTaskLog)) = 2
    /\ Len(SelectSeq(trace, IsOpeningLog)) = 1

\* ---- C19: a call of _call_llm cannot run for ever: a step of its loop
\* either returns or adds exactly one to attempt, which starts at 0 and
\* never exceeds max_retries (0 when max_retries is not positive), and each
\* step makes at most one request, so a call makes at most max_retries
\* requests; with max_retries <= 0 it makes none and returns None.
C19_LoopStep ==
    /\ (llm_pc = "loop") =>
          \/ /\ llm_pc' = "returned"
             /\ attempt' = attempt
             /\ Len(Requests(trace')) <= Len(Requests(trace)) + 1
          \/ /\ llm_pc' = "loop"
             /\ attempt' = attempt + 1
             /\ attempt' <= max_retries
             /\ Len(Requests(trace')) = Len(Requests(trace)) + 1
    /\ (llm_pc' = "loop") =>
          /\ attempt' >= 0
          /\ attempt' <= (IF max_retries' > 0 THEN max_retries' ELSE 0)
    /\ (llm_pc' = "returned") =>
          /\ Len(Requests(SubSeq(trace', call_start' + 1, Len(trace'))))
                <= (IF max_retries' > 0 THEN max_retries' ELSE 0)
          /\ (max_retries' <= 0 =>
                /\ Len(Requests(SubSeq(trace', call_start' + 1, Len(trace')))) = 0
                /\ result' = None)

C19_CallTerminates == [][C19_LoopStep]_vars

C19_Witness ==
    /\ Returned
    /\ max_retries < 0
    /\ CallRequests = 0
    /\ result = None

====
